---------------------------- MODULE Spec2Model ----------------------------
(***************************************************************************)
(* A model of the array/hash-map solutions under                          *)
(* src/neetcode/arrays-hashing.  Every solution is an independent          *)
(* function; each one gets its own group of variables, its own initial     *)
(* predicate (the inputs, drawn from bounded sets) and its own             *)
(* specification.  A group that a specification does not run stays idle.   *)
(*                                                                         *)
(* Python values: a str is a sequence of one-character strings, a list is  *)
(* a sequence, a dict is a function together with the sequence of its keys *)
(* in insertion order, a set is a set.  Python indices are 0-based, TLA+   *)
(* sequences 1-based: At(seq, n) is Python's seq[n].                       *)
(***************************************************************************)
EXTENDS Integers, Sequences, FiniteSets, TLC

VARIABLES
    \* 06-string-encode-and-decode.py
    enc_strs, s, i, j, decoded_strs, cpc,
    \* 03-two-integer-sum.py
    ts_nums, target, index, num_to_index, ts_ret, tpc,
    \* 07-products-of-array-discluding-self.py
    pe_nums, output, left_product, right_product, pe_i, ppc,
    \* 05-top-k-elements-in-list.py
    tk_nums, tk_perm, k, tk_ret, tk_ret_perm, tkb_ret, tkb_ret_perm, kpc,
    \* 09-longest-consecutive-sequence.py
    lc_nums, num_set, todo, num, current_num, current_streak, longest_streak,
    inner_steps, lpc,
    \* 04-anagram-groups.py
    ga_strs, ga_pos, anagram_map, ga_ret, gac_ret, gpc,
    \* 02-is-anagram.py
    ia_s, ia_t, ia_ret, apc

codecVars == <<enc_strs, s, i, j, decoded_strs, cpc>>
twoSumVars == <<ts_nums, target, index, num_to_index, ts_ret, tpc>>
productVars == <<pe_nums, output, left_product, right_product, pe_i, ppc>>
topKVars == <<tk_nums, tk_perm, k, tk_ret, tk_ret_perm, tkb_ret, tkb_ret_perm, kpc>>
longestVars == <<lc_nums, num_set, todo, num, current_num, current_streak,
                 longest_streak, inner_steps, lpc>>
groupVars == <<ga_strs, ga_pos, anagram_map, ga_ret, gac_ret, gpc>>
anagramVars == <<ia_s, ia_t, ia_ret, apc>>

vars == <<codecVars, twoSumVars, productVars, topKVars, longestVars,
          groupVars, anagramVars>>

IdleCodec ==
    /\ enc_strs = <<>> /\ s = <<>> /\ i = 0 /\ j = 0
    /\ decoded_strs = <<>> /\ cpc = "idle"

IdleTwoSum ==
    /\ ts_nums = <<>> /\ target = 0 /\ index = 0 /\ num_to_index = <<>>
    /\ ts_ret = <<>> /\ tpc = "idle"

IdleProduct ==
    /\ pe_nums = <<>> /\ output = <<>> /\ left_product = 1
    /\ right_product = 1 /\ pe_i = 0 /\ ppc = "idle"

IdleTopK ==
    /\ tk_nums = <<>> /\ tk_perm = <<>> /\ k = 0 /\ tk_ret = <<>>
    /\ tk_ret_perm = <<>> /\ tkb_ret = <<>> /\ tkb_ret_perm = <<>>
    /\ kpc = "idle"

IdleLongest ==
    /\ lc_nums = <<>> /\ num_set = {} /\ todo = {} /\ num = 0
    /\ current_num = 0 /\ current_streak = 0 /\ longest_streak = 0
    /\ inner_steps = <<>> /\ lpc = "idle"

IdleGroup ==
    /\ ga_strs = <<>> /\ ga_pos = 0 /\ anagram_map = <<>> /\ ga_ret = <<>>
    /\ gac_ret = <<>> /\ gpc = "idle"

IdleAnagram ==
    /\ ia_s = <<>> /\ ia_t = <<>> /\ ia_ret = FALSE /\ apc = "idle"

---------------------------------------------------------------------------
(* Bounds of the model. *)

\* Longest short string, in characters.
MaxLen == 2
\* Most strings in a list given to encode.
MaxStrs == 2
\* Length of the long strings given to encode (a length of two digits).
LongLen == 10
\* Longest integer array.
MaxNums == 3
\* Most strings in a list given to groupAnagrams.
MaxGroupStrs == 3
\* Largest absolute value of an element of an integer array.
MaxVal == 2

---------------------------------------------------------------------------
(* Python values. *)

\* Python's seq[n], n counted from 0.
At(seq, n) == seq[n + 1]

\* Python's seq[a:b] for 0 <= a: the slice stops at the end of seq.
Slice(seq, a, b) ==
    SubSeq(seq, a + 1, IF b < Len(seq) THEN b ELSE Len(seq))

\* All sequences over S of length at most n.
SeqsUpTo(S, n) == UNION {[1..m -> S] : m \in 0..n}

Range(seq) == {seq[n] : n \in DOMAIN seq}

\* Python's d[key] = value on a dict d.
DictSet(d, key, value) ==
    [x \in DOMAIN d \cup {key} |-> IF x = key THEN value ELSE d[x]]

\* The integers an array may hold.
Vals == (0 - MaxVal)..MaxVal

DigitChars == <<"0", "1", "2", "3", "4", "5", "6", "7", "8", "9">>

\* The value of a decimal digit character.
DigitValue(c) == CHOOSE d \in 0..9 : DigitChars[d + 1] = c

\* Python's str(n), n >= 0: the decimal digits, most significant first.
RECURSIVE IntToStr(_)
IntToStr(n) ==
    IF n < 10 THEN <<DigitChars[n + 1]>>
    ELSE IntToStr(n \div 10) \o <<DigitChars[(n % 10) + 1]>>

\* The strings Python's int() accepts among those over digits, '#' and
\* letters: the non-empty strings of decimal digits.
IsDecimal(str) ==
    /\ Len(str) > 0
    /\ \A n \in DOMAIN str : str[n] \in Range(DigitChars)

\* Python's int(str) of a string of decimal digits.
RECURSIVE ParseInt(_)
ParseInt(str) ==
    IF Len(str) = 0 THEN 0
    ELSE 10 * ParseInt(SubSeq(str, 1, Len(str) - 1)) + DigitValue(str[Len(str)])

---------------------------------------------------------------------------
(* 06-string-encode-and-decode.py *)

\* The characters of the strings given to encode: the delimiter, a digit
\* and a letter.
CodecAlphabet == {"#", "1", "a"}

CodecStrings ==
    SeqsUpTo(CodecAlphabet, MaxLen)
        \cup {[n \in 1..LongLen |-> c] : c \in CodecAlphabet}

\* A mutant of EncodeOne: the delimiter without the length.
EncodeOneNoLength(str) == <<"#">> \o str

\* f"{len(s)}#{s}"
EncodeOne(str) == IntToStr(Len(str)) \o <<"#">> \o str

\* "".join(f"{len(s)}#{s}" for s in strs)
RECURSIVE encode(_)
encode(strs) ==
    IF strs = <<>> THEN <<>>
    ELSE EncodeOne(Head(strs)) \o encode(Tail(strs))

InitCodec ==
    /\ enc_strs \in SeqsUpTo(CodecStrings, MaxStrs)
    /\ s = <<>> /\ i = 0 /\ j = 0 /\ decoded_strs = <<>>
    /\ cpc = "encode"
    /\ IdleTwoSum /\ IdleProduct /\ IdleTopK /\ IdleLongest /\ IdleGroup
    /\ IdleAnagram

codecOthers == <<twoSumVars, productVars, topKVars, longestVars, groupVars,
                 anagramVars>>

\* encoded = solution.encode(strs); decode(encoded) starts with an empty
\* list and the cursor at 0.
Encode ==
    /\ cpc = "encode"
    /\ s' = encode(enc_strs)
    /\ decoded_strs' = <<>>
    /\ i' = 0
    /\ cpc' = "while"
    /\ UNCHANGED <<enc_strs, j, codecOthers>>

\* while i < len(s): j = i
DecodeWhile ==
    /\ cpc = "while"
    /\ IF i < Len(s)
       THEN j' = i /\ cpc' = "scan"
       ELSE j' = j /\ cpc' = "done"
    /\ UNCHANGED <<enc_strs, s, i, decoded_strs, codecOthers>>

\* while s[j] != "#": j += 1.  Reading s[j] past the end raises IndexError.
DecodeScan ==
    /\ cpc = "scan"
    /\ IF j >= Len(s)
       THEN j' = j /\ cpc' = "IndexError"
       ELSE IF At(s, j) # "#"
            THEN j' = j + 1 /\ cpc' = "scan"
            ELSE j' = j /\ cpc' = "parse"
    /\ UNCHANGED <<enc_strs, s, i, decoded_strs, codecOthers>>

\* A mutant of NextCursor: the delimiter is not skipped.
NextCursorNoDelimiter(pos, length) == pos + length

\* i = j + 1 + length
NextCursor(pos, length) == pos + 1 + length

\* length = int(s[i:j]); decoded_strs.append(s[j + 1 : j + 1 + length]);
\* i = j + 1 + length.  int() of a string that is no number raises
\* ValueError.
DecodeParse ==
    /\ cpc = "parse"
    /\ IF IsDecimal(Slice(s, i, j))
       THEN LET length == ParseInt(Slice(s, i, j))
            IN /\ decoded_strs' =
                      Append(decoded_strs, Slice(s, j + 1, j + 1 + length))
               /\ i' = NextCursor(j, length)
               /\ cpc' = "while"
       ELSE /\ cpc' = "ValueError"
            /\ UNCHANGED <<decoded_strs, i>>
    /\ UNCHANGED <<enc_strs, s, j, codecOthers>>

NextCodec == Encode \/ DecodeWhile \/ DecodeScan \/ DecodeParse

SpecCodec == InitCodec /\ [][NextCodec]_vars

\* decode is a sequential loop: a step that can run does run.
SpecCodecFair == SpecCodec /\ WF_vars(NextCodec)

\* C1: decode(encode(xs)) raises nothing and returns xs, for every list of
\* strings xs: the same length, the same strings, the same order.
C1_RoundTrip ==
    /\ cpc \notin {"IndexError", "ValueError"}
    /\ cpc = "done" => decoded_strs = enc_strs

\* A round trip of a list holding the empty string and a string made of
\* the delimiter and a digit.
C1_Witness ==
    /\ cpc = "done"
    /\ Len(enc_strs) = 2
    /\ enc_strs[1] = <<>>
    /\ Range(enc_strs[2]) = {"#", "1"}
    /\ decoded_strs = enc_strs

\* The string that the iteration of decode now running has to produce.
CurrentItem == enc_strs[Len(decoded_strs) + 1]

\* One iteration of decode, seen at the step that ends it: the cursor i
\* strictly increases, and the iteration consumed exactly the decimal
\* digits of the length, one '#' and that many characters of payload.
IterationConsumes ==
    cpc = "parse" =>
        /\ i' > i
        /\ Len(decoded_strs) < Len(enc_strs)
        /\ j - i = Len(IntToStr(Len(CurrentItem)))
        /\ At(s, j) = "#"
        /\ i' = j + 1 + Len(CurrentItem)
        /\ i' <= Len(s)
        /\ cpc' = "while"

\* C10: decode on s = encode(xs) terminates: every iteration strictly
\* increases the cursor i and consumes exactly the length digits, one '#'
\* and the payload; the scan for '#' never reads past the end of s; the
\* loop runs len(xs) times and exits with i = len(s).
C10_DecodeTerminates ==
    /\ [](/\ cpc # "IndexError"
          /\ cpc = "scan" => j < Len(s)
          /\ cpc = "done" => i = Len(s) /\ Len(decoded_strs) = Len(enc_strs))
    /\ [][IterationConsumes]_vars
    /\ <>(cpc = "done")

\* decode has run to its end on the encoding of a string whose length
\* takes two digits followed by a string holding the delimiter.
C10_Witness ==
    /\ cpc = "done"
    /\ Len(enc_strs) = 2
    /\ Len(enc_strs[1]) = LongLen
    /\ "#" \in Range(enc_strs[2])
    /\ i = Len(s)

---------------------------------------------------------------------------
(* 03-two-integer-sum.py *)

InitTwoSum ==
    /\ ts_nums \in SeqsUpTo(Vals, MaxNums)
    /\ target \in (0 - 2 * MaxVal)..(2 * MaxVal)
    /\ index = 0 /\ num_to_index = <<>> /\ ts_ret = <<>>
    /\ tpc = "for"
    /\ IdleCodec /\ IdleProduct /\ IdleTopK /\ IdleLongest /\ IdleGroup
    /\ IdleAnagram

twoSumOthers == <<codecVars, productVars, topKVars, longestVars, groupVars,
                  anagramVars>>

\* A mutant of FoundPair: the two indices in the other order.
FoundPairSwapped(earlier, later) == <<later, earlier>>

\* return [num_to_index[complement], index]
FoundPair(earlier, later) == <<earlier, later>>

\* One iteration of "for index, num in enumerate(nums)".
TwoSumStep ==
    /\ tpc = "for"
    /\ index < Len(ts_nums)
    /\ LET complement == target - At(ts_nums, index)
       IN IF complement \in DOMAIN num_to_index
          THEN /\ ts_ret' = FoundPair(num_to_index[complement], index)
               /\ tpc' = "done"
               /\ UNCHANGED <<index, num_to_index>>
          ELSE /\ num_to_index' =
                      DictSet(num_to_index, At(ts_nums, index), index)
               /\ index' = index + 1
               /\ UNCHANGED <<ts_ret, tpc>>
    /\ UNCHANGED <<ts_nums, target, twoSumOthers>>

\* The loop ends without a pair: return [].
TwoSumExhausted ==
    /\ tpc = "for"
    /\ index = Len(ts_nums)
    /\ ts_ret' = <<>>
    /\ tpc' = "done"
    /\ UNCHANGED <<ts_nums, target, index, num_to_index, twoSumOthers>>

NextTwoSum == TwoSumStep \/ TwoSumExhausted

SpecTwoSum == InitTwoSum /\ [][NextTwoSum]_vars

\* The pairs of indices a < b (counted from 0) whose elements sum to t.
SumPairs(nums, t) ==
    {p \in (0..(Len(nums) - 1)) \X (0..(Len(nums) - 1)) :
        p[1] < p[2] /\ At(nums, p[1]) + At(nums, p[2]) = t}

\* C2: when exactly one pair of distinct indices of nums sums to target,
\* twoSum returns [i, j] with i < j and nums[i] + nums[j] = target.
C2_TwoSum ==
    (tpc = "done" /\ Cardinality(SumPairs(ts_nums, target)) = 1) =>
        /\ Len(ts_ret) = 2
        /\ ts_ret[1] < ts_ret[2]
        /\ <<ts_ret[1], ts_ret[2]>> \in SumPairs(ts_nums, target)

\* twoSum has answered on an array whose one pair is a value taken twice,
\* the pair not being the first two elements.
C2_Witness ==
    /\ tpc = "done"
    /\ ts_nums = <<2, 0, 2>>
    /\ target = 4
    /\ Cardinality(SumPairs(ts_nums, target)) = 1
    /\ ts_ret = <<0, 2>>

---------------------------------------------------------------------------
(* 07-products-of-array-discluding-self.py *)

InitProduct ==
    /\ pe_nums \in SeqsUpTo(Vals, MaxNums)
    /\ output = <<>> /\ left_product = 1 /\ right_product = 1 /\ pe_i = 0
    /\ ppc = "start"
    /\ IdleCodec /\ IdleTwoSum /\ IdleTopK /\ IdleLongest /\ IdleGroup
    /\ IdleAnagram

productOthers == <<codecVars, twoSumVars, topKVars, longestVars, groupVars,
                   anagramVars>>

\* n = len(nums); output = [1] * n; left_product = 1; the left pass starts
\* at range(n)'s first index.
ProductStart ==
    /\ ppc = "start"
    /\ output' = [n \in 1..Len(pe_nums) |-> 1]
    /\ left_product' = 1
    /\ pe_i' = 0
    /\ ppc' = "left"
    /\ UNCHANGED <<pe_nums, right_product, productOthers>>

\* output[i] = left_product; left_product *= nums[i]
LeftStep ==
    /\ ppc = "left"
    /\ pe_i < Len(pe_nums)
    /\ output' = [output EXCEPT ![pe_i + 1] = left_product]
    /\ left_product' = left_product * At(pe_nums, pe_i)
    /\ pe_i' = pe_i + 1
    /\ UNCHANGED <<pe_nums, right_product, ppc, productOthers>>

\* A mutant of RightStart: the right pass skips the last index.
RightStartShort(n) == n - 2

\* The first index of range(n - 1, -1, -1).
RightStart(n) == n - 1

\* The left pass is over: right_product = 1 and the right pass starts.
LeftEnd ==
    /\ ppc = "left"
    /\ pe_i = Len(pe_nums)
    /\ right_product' = 1
    /\ pe_i' = RightStart(Len(pe_nums))
    /\ ppc' = "right"
    /\ UNCHANGED <<pe_nums, output, left_product, productOthers>>

\* output[i] *= right_product; right_product *= nums[i]
RightStep ==
    /\ ppc = "right"
    /\ pe_i >= 0
    /\ output' = [output EXCEPT ![pe_i + 1] = @ * right_product]
    /\ right_product' = right_product * At(pe_nums, pe_i)
    /\ pe_i' = pe_i - 1
    /\ UNCHANGED <<pe_nums, left_product, ppc, productOthers>>

\* The right pass is over: return output.
RightEnd ==
    /\ ppc = "right"
    /\ pe_i < 0
    /\ ppc' = "done"
    /\ UNCHANGED <<pe_nums, output, left_product, right_product, pe_i,
                   productOthers>>

NextProduct == ProductStart \/ LeftStep \/ LeftEnd \/ RightStep \/ RightEnd

SpecProduct == InitProduct /\ [][NextProduct]_vars

\* The product of nums[n] over the positions n of from..Len(nums) other than
\* skip (positions counted from 1).
RECURSIVE ProductExcept(_, _, _)
ProductExcept(nums, skip, from) ==
    IF from > Len(nums) THEN 1
    ELSE (IF from = skip THEN 1 ELSE nums[from])
             * ProductExcept(nums, skip, from + 1)

\* C3: productExceptSelf returns an array as long as nums whose element at
\* each index is the product of all the other elements of nums.
C3_ProductExceptSelf ==
    ppc = "done" =>
        /\ Len(output) = Len(pe_nums)
        /\ \A n \in 1..Len(pe_nums) : output[n] = ProductExcept(pe_nums, n, 1)

\* productExceptSelf has answered on an array with a zero and a negative
\* value.
C3_Witness ==
    /\ ppc = "done"
    /\ pe_nums = <<0 - 1, 0, 2>>
    /\ output = <<0, 0 - 2, 0>>

---------------------------------------------------------------------------
(* collections.Counter, used by 05-top-k-elements-in-list.py and
   02-is-anagram.py: a dict from element to count whose keys are in the
   order the elements were first seen. *)

EmptyCounter == [keys |-> <<>>, count |-> <<>>]

\* self[elem] = self.get(elem, 0) + 1
CounterAdd(c, elem) ==
    IF elem \in DOMAIN c.count
    THEN [c EXCEPT !.count[elem] = @ + 1]
    ELSE [keys |-> Append(c.keys, elem), count |-> DictSet(c.count, elem, 1)]

RECURSIVE CounterUpdate(_, _)
CounterUpdate(c, iterable) ==
    IF iterable = <<>> THEN c
    ELSE CounterUpdate(CounterAdd(c, Head(iterable)), Tail(iterable))

\* Counter(iterable)
Counter(iterable) == CounterUpdate(EmptyCounter, iterable)

---------------------------------------------------------------------------
(* 05-top-k-elements-in-list.py *)

\* The values of the arrays given to topKFrequent.
TopKVals == 0..MaxVal

\* The rearrangements of nums.
Rearrangements(nums) ==
    {p \in [DOMAIN nums -> Range(nums)] :
        \A v \in Range(nums) :
            Cardinality({n \in DOMAIN p : p[n] = v})
                = Cardinality({n \in DOMAIN nums : nums[n] = v})}

InitTopK ==
    /\ tk_nums \in SeqsUpTo(TopKVals, MaxNums) \ {<<>>}
    /\ tk_perm \in Rearrangements(tk_nums)
    /\ k \in 1..Len(tk_nums)
    /\ tk_ret = <<>> /\ tk_ret_perm = <<>>
    /\ tkb_ret = <<>> /\ tkb_ret_perm = <<>>
    /\ kpc = "topKFrequent"
    /\ IdleCodec /\ IdleTwoSum /\ IdleProduct /\ IdleLongest /\ IdleGroup
    /\ IdleAnagram

topKOthers == <<codecVars, twoSumVars, productVars, longestVars, groupVars,
                anagramVars>>

\* The keys of c sorted by count, largest first, keys of equal count in
\* the order of ranked followed by key: one insertion of a stable sort.
RECURSIVE InsertByCount(_, _, _)
InsertByCount(c, ranked, key) ==
    IF ranked = <<>> THEN <<key>>
    ELSE IF c.count[Head(ranked)] >= c.count[key]
         THEN <<Head(ranked)>> \o InsertByCount(c, Tail(ranked), key)
         ELSE <<key>> \o ranked

RECURSIVE SortedByCount(_, _)
SortedByCount(c, keys) ==
    IF keys = <<>> THEN <<>>
    ELSE InsertByCount(c, SortedByCount(c, SubSeq(keys, 1, Len(keys) - 1)),
                       keys[Len(keys)])

\* A mutant of most_common: the first n keys, not sorted by count.
most_common_unsorted(c, n) == Slice(c.keys, 0, n)

\* Counter.most_common(n), n given: heapq.nlargest(n, items, key=count),
\* which is sorted(items, key=count, reverse=True)[:n], a stable sort.
most_common(c, n) == Slice(SortedByCount(c, c.keys), 0, n)

\* frequency_map = Counter(nums); most_common = frequency_map.most_common(k);
\* return [element for element, _ in most_common]
topKFrequent(nums, n) == most_common(Counter(nums), n)

\* max(frequency_map.values())
MaxFreq(c) ==
    CHOOSE m \in {c.count[v] : v \in DOMAIN c.count} :
        \A v \in DOMAIN c.count : c.count[v] <= m

\* buckets[freq] once "for num, freq in frequency_map.items():
\* buckets[freq].append(num)" has run.
Bucket(c, freq) ==
    LET HasFreq(v) == c.count[v] = freq
    IN SelectSeq(c.keys, HasFreq)

\* A mutant of FreqOrder: range(1, max_freq + 1).
FreqOrderAscending(max_freq) == [n \in 1..max_freq |-> n]

\* range(max_freq, 0, -1)
FreqOrder(max_freq) == [n \in 1..max_freq |-> max_freq + 1 - n]

\* for num in buckets[freq]: result.append(num); if len(result) == k:
\* return result.  The result so far and whether the function returned.
RECURSIVE BucketLoop(_, _, _)
BucketLoop(bucket, result, n) ==
    IF bucket = <<>> THEN [result |-> result, returned |-> FALSE]
    ELSE LET appended == Append(result, Head(bucket))
         IN IF Len(appended) = n
            THEN [result |-> appended, returned |-> TRUE]
            ELSE BucketLoop(Tail(bucket), appended, n)

\* for freq in range(max_freq, 0, -1): ...; return result
RECURSIVE FreqLoop(_, _, _, _)
FreqLoop(c, freqs, result, n) ==
    IF freqs = <<>> THEN result
    ELSE LET inner == BucketLoop(Bucket(c, Head(freqs)), result, n)
         IN IF inner.returned THEN inner.result
            ELSE FreqLoop(c, Tail(freqs), inner.result, n)

topKFrequentBucketSort(nums, n) ==
    LET frequency_map == Counter(nums)
    IN FreqLoop(frequency_map, FreqOrder(MaxFreq(frequency_map)), <<>>, n)

\* solution.topKFrequent(nums, k), on nums and on its rearrangement.
CallTopKFrequent ==
    /\ kpc = "topKFrequent"
    /\ tk_ret' = topKFrequent(tk_nums, k)
    /\ tk_ret_perm' = topKFrequent(tk_perm, k)
    /\ kpc' = "topKFrequentBucketSort"
    /\ UNCHANGED <<tk_nums, tk_perm, k, tkb_ret, tkb_ret_perm, topKOthers>>

\* solution.topKFrequentBucketSort(nums, k), on nums and on its
\* rearrangement.
CallTopKFrequentBucketSort ==
    /\ kpc = "topKFrequentBucketSort"
    /\ tkb_ret' = topKFrequentBucketSort(tk_nums, k)
    /\ tkb_ret_perm' = topKFrequentBucketSort(tk_perm, k)
    /\ kpc' = "done"
    /\ UNCHANGED <<tk_nums, tk_perm, k, tk_ret, tk_ret_perm, topKOthers>>

NextTopK == CallTopKFrequent \/ CallTopKFrequentBucketSort

SpecTopK == InitTopK /\ [][NextTopK]_vars

\* How often v occurs in nums.
Occurrences(nums, v) == Cardinality({n \in DOMAIN nums : nums[n] = v})

\* ret holds n pairwise distinct values of nums, each occurring at least as
\* often as every value of nums that ret does not hold.
IsTopK(nums, n, ret) ==
    /\ Len(ret) = n
    /\ Cardinality(Range(ret)) = n
    /\ Range(ret) \subseteq Range(nums)
    /\ \A a \in Range(ret) : \A b \in Range(nums) \ Range(ret) :
           Occurrences(nums, a) >= Occurrences(nums, b)
    /\ n = Cardinality(Range(nums)) => Range(ret) = Range(nums)

\* The precondition of the problem: 1 <= k <= number of distinct values.
ValidK == 1 <= k /\ k <= Cardinality(Range(tk_nums))

\* C4: for 1 <= k <= number of distinct values, topKFrequent and
\* topKFrequentBucketSort each return exactly k distinct values of nums,
\* every one at least as frequent as every value not returned, and all the
\* values when k is their number.
C4_TopK ==
    (kpc = "done" /\ ValidK) =>
        /\ IsTopK(tk_nums, k, tk_ret)
        /\ IsTopK(tk_nums, k, tkb_ret)

\* Both functions have answered where one value is more frequent than the
\* one seen before it.
C4_Witness ==
    /\ kpc = "done"
    /\ tk_nums = <<0, 1, 1>>
    /\ k = 1
    /\ tk_ret = <<1>>
    /\ tkb_ret = <<1>>

\* The sets of n values of nums that are the n most frequent.
TopSets(nums, n) ==
    {T \in SUBSET Range(nums) :
        /\ Cardinality(T) = n
        /\ \A a \in T : \A b \in Range(nums) \ T :
               Occurrences(nums, a) >= Occurrences(nums, b)}

\* Both functions return the same set of values on nums and on its
\* rearrangement.
SameOnPermutation ==
    /\ Range(tk_ret) = Range(tk_ret_perm)
    /\ Range(tkb_ret) = Range(tkb_ret_perm)

\* C5 as stated: for every nums, every rearrangement of it and every valid
\* k, each function returns the same set of values on both.
C5_AnyPermutation == (kpc = "done" /\ ValidK) => SameOnPermutation

\* C5, amended: when the k most frequent values of nums are determined (no
\* value left out is as frequent as one taken), each function returns the
\* same set of values on nums and on every rearrangement of nums.
C5_UniqueAnswerPermutation ==
    (kpc = "done" /\ ValidK /\ Cardinality(TopSets(tk_nums, k)) = 1) =>
        SameOnPermutation

\* Both functions have answered on an array and on a rearrangement of it
\* that moves the most frequent value to the front.
C5_Witness ==
    /\ kpc = "done"
    /\ tk_nums = <<0, 1, 1>>
    /\ tk_perm = <<1, 1, 0>>
    /\ k = 1
    /\ Cardinality(TopSets(tk_nums, k)) = 1
    /\ tk_ret_perm = <<1>>
    /\ tkb_ret_perm = <<1>>

---------------------------------------------------------------------------
(* 09-longest-consecutive-sequence.py *)

InitLongest ==
    /\ lc_nums \in SeqsUpTo(Vals, MaxNums)
    /\ num_set = {} /\ todo = {} /\ num = 0 /\ current_num = 0
    /\ current_streak = 0 /\ longest_streak = 0 /\ inner_steps = <<>>
    /\ lpc = "start"
    /\ IdleCodec /\ IdleTwoSum /\ IdleProduct /\ IdleTopK /\ IdleGroup
    /\ IdleAnagram

longestOthers == <<codecVars, twoSumVars, productVars, topKVars, groupVars,
                   anagramVars>>

\* num_set = set(nums); longest_streak = 0.  todo holds the values that
\* "for num in num_set" has yet to visit; inner_steps records, in order,
\* the values the inner loop steps onto.
LongestStart ==
    /\ lpc = "start"
    /\ num_set' = Range(lc_nums)
    /\ todo' = Range(lc_nums)
    /\ longest_streak' = 0
    /\ inner_steps' = <<>>
    /\ lpc' = "for"
    /\ UNCHANGED <<lc_nums, num, current_num, current_streak, longestOthers>>

\* A mutant of IsRunStart: every value starts a count.
IsRunStartAlways(n, set) == TRUE

\* if num - 1 not in num_set
IsRunStart(n, set) == n - 1 \notin set

\* One iteration of "for num in num_set", up to the inner loop: a set is
\* visited in an order the caller does not choose.
LongestFor ==
    /\ lpc = "for"
    /\ \E n \in todo :
        /\ num' = n
        /\ todo' = todo \ {n}
        /\ IF IsRunStart(n, num_set)
           THEN /\ current_num' = n
                /\ current_streak' = 1
                /\ lpc' = "while"
           ELSE UNCHANGED <<current_num, current_streak, lpc>>
    /\ UNCHANGED <<lc_nums, num_set, longest_streak, inner_steps,
                   longestOthers>>

\* A mutant of Max: the later value.
MaxLast(a, b) == b

\* max(a, b)
Max(a, b) == IF a >= b THEN a ELSE b

\* while current_num + 1 in num_set: current_num += 1; current_streak += 1
\* and, the loop over, longest_streak = max(longest_streak, current_streak).
LongestWhile ==
    /\ lpc = "while"
    /\ IF current_num + 1 \in num_set
       THEN /\ current_num' = current_num + 1
            /\ current_streak' = current_streak + 1
            /\ inner_steps' = Append(inner_steps, current_num + 1)
            /\ UNCHANGED <<longest_streak, lpc>>
       ELSE /\ longest_streak' = Max(longest_streak, current_streak)
            /\ lpc' = "for"
            /\ UNCHANGED <<current_num, current_streak, inner_steps>>
    /\ UNCHANGED <<lc_nums, num_set, todo, num, longestOthers>>

\* Every value was visited: return longest_streak.
LongestReturn ==
    /\ lpc = "for"
    /\ todo = {}
    /\ lpc' = "done"
    /\ UNCHANGED <<lc_nums, num_set, todo, num, current_num, current_streak,
                   longest_streak, inner_steps, longestOthers>>

NextLongest == LongestStart \/ LongestFor \/ LongestWhile \/ LongestReturn

SpecLongest == InitLongest /\ [][NextLongest]_vars

\* The largest m such that some v, v+1, ..., v+m-1 are all in S; 0 for the
\* empty set.
LongestRun(S) ==
    CHOOSE m \in 0..Cardinality(S) :
        /\ m = 0 \/ \E v \in S : \A d \in 0..(m - 1) : v + d \in S
        /\ \A v \in S : \E d \in 0..m : v + d \notin S

\* C6: longestConsecutive returns the largest m such that some v, ...,
\* v+m-1 all occur in nums, 0 for the empty array: a value that only the
\* set of the values of nums decides, whatever their order and however
\* often each occurs.
C6_LongestConsecutive ==
    lpc = "done" => longest_streak = LongestRun(Range(lc_nums))

\* longestConsecutive has answered on an array with a value taken twice,
\* given out of order.
C6_Witness ==
    /\ lpc = "done"
    /\ lc_nums = <<1, 1, 0>>
    /\ longest_streak = 2

\* C9: the inner loop is entered only from a value whose predecessor is not
\* in the set, and over one call it steps onto each distinct value at most
\* once, so that its iterations never outnumber the distinct values.
C9_InnerLoopBound ==
    /\ lpc = "while" => num - 1 \notin num_set
    /\ Range(inner_steps) \subseteq num_set
    /\ \A a, b \in DOMAIN inner_steps :
           a # b => inner_steps[a] # inner_steps[b]
    /\ Len(inner_steps) <= Cardinality(num_set)

\* The call is over, several values were visited that start no run, and
\* the inner loop has stepped onto each of them once.
C9_Witness ==
    /\ lpc = "done"
    /\ num_set = {0, 1, 2}
    /\ Len(inner_steps) = 2

---------------------------------------------------------------------------
(* 04-anagram-groups.py *)

\* The lowercase English letters, in the order of their code points.
Letters ==
    <<"a", "b", "c", "d", "e", "f", "g", "h", "i", "j", "k", "l", "m",
      "n", "o", "p", "q", "r", "s", "t", "u", "v", "w", "x", "y", "z">>

\* The size of the count vector: [0] * 26.
AlphabetSize == 26

\* ord(char) - ord("a")
Ord(char) == (CHOOSE n \in DOMAIN Letters : Letters[n] = char) - 1

\* The letters of the strings given to groupAnagrams.
GroupAlphabet == {"a", "b"}

\* A defaultdict(list): the keys in insertion order and each key's list.
EmptyDict == [keys |-> <<>>, val |-> <<>>]

\* d[key].append(item) on a defaultdict(list) d.
DefaultDictAppend(d, key, item) ==
    IF key \in DOMAIN d.val
    THEN [d EXCEPT !.val[key] = Append(@, item)]
    ELSE [keys |-> Append(d.keys, key), val |-> DictSet(d.val, key, <<item>>)]

\* list(d.values())
DictValues(d) == [n \in 1..Len(d.keys) |-> d.val[d.keys[n]]]

\* One insertion of a stable sort of characters by code point.
RECURSIVE InsertChar(_, _)
InsertChar(sorted, char) ==
    IF sorted = <<>> THEN <<char>>
    ELSE IF Ord(Head(sorted)) <= Ord(char)
         THEN <<Head(sorted)>> \o InsertChar(Tail(sorted), char)
         ELSE <<char>> \o sorted

\* A mutant of SortedJoin: the string as it is.
SortedJoinUnsorted(str) == str

\* "".join(sorted(s))
RECURSIVE SortedJoin(_)
SortedJoin(str) ==
    IF str = <<>> THEN <<>>
    ELSE InsertChar(SortedJoin(SubSeq(str, 1, Len(str) - 1)), str[Len(str)])

\* count = [0] * 26; for char in s: count[ord(char) - ord("a")] += 1;
\* tuple(count)
RECURSIVE CountKey(_)
CountKey(str) ==
    IF str = <<>> THEN [n \in 1..AlphabetSize |-> 0]
    ELSE [CountKey(SubSeq(str, 1, Len(str) - 1))
              EXCEPT ![Ord(str[Len(str)]) + 1] = @ + 1]

InitGroup ==
    /\ ga_strs \in SeqsUpTo(SeqsUpTo(GroupAlphabet, MaxLen), MaxGroupStrs)
    /\ ga_pos = 0 /\ anagram_map = EmptyDict
    /\ ga_ret = <<>> /\ gac_ret = <<>>
    /\ gpc = "groupAnagrams"
    /\ IdleCodec /\ IdleTwoSum /\ IdleProduct /\ IdleTopK /\ IdleLongest
    /\ IdleAnagram

groupOthers == <<codecVars, twoSumVars, productVars, topKVars, longestVars,
                 anagramVars>>

\* groupAnagrams, one iteration of "for s in strs":
\* anagram_map[sorted_s].append(s)
GroupStep ==
    /\ gpc = "groupAnagrams"
    /\ ga_pos < Len(ga_strs)
    /\ anagram_map' =
           DefaultDictAppend(anagram_map, SortedJoin(At(ga_strs, ga_pos)),
                             At(ga_strs, ga_pos))
    /\ ga_pos' = ga_pos + 1
    /\ UNCHANGED <<ga_strs, ga_ret, gac_ret, gpc, groupOthers>>

\* groupAnagrams returns list(anagram_map.values()); groupAnagramsCount is
\* called next, on the same list, with a map of its own.
GroupReturn ==
    /\ gpc = "groupAnagrams"
    /\ ga_pos = Len(ga_strs)
    /\ ga_ret' = DictValues(anagram_map)
    /\ anagram_map' = EmptyDict
    /\ ga_pos' = 0
    /\ gpc' = "groupAnagramsCount"
    /\ UNCHANGED <<ga_strs, gac_ret, groupOthers>>

\* groupAnagramsCount, one iteration of "for s in strs":
\* anagram_map[tuple(count)].append(s)
GroupCountStep ==
    /\ gpc = "groupAnagramsCount"
    /\ ga_pos < Len(ga_strs)
    /\ anagram_map' =
           DefaultDictAppend(anagram_map, CountKey(At(ga_strs, ga_pos)),
                             At(ga_strs, ga_pos))
    /\ ga_pos' = ga_pos + 1
    /\ UNCHANGED <<ga_strs, ga_ret, gac_ret, gpc, groupOthers>>

\* groupAnagramsCount returns list(anagram_map.values()).
GroupCountReturn ==
    /\ gpc = "groupAnagramsCount"
    /\ ga_pos = Len(ga_strs)
    /\ gac_ret' = DictValues(anagram_map)
    /\ gpc' = "done"
    /\ UNCHANGED <<ga_strs, ga_pos, anagram_map, ga_ret, groupOthers>>

NextGroup == GroupStep \/ GroupReturn \/ GroupCountStep \/ GroupCountReturn

SpecGroup == InitGroup /\ [][NextGroup]_vars

\* b is a rearrangement of the characters of a.
IsPermutation(a, b) ==
    /\ Len(a) = Len(b)
    /\ \E f \in [DOMAIN a -> DOMAIN a] :
        /\ \A m, n \in DOMAIN a : m # n => f[m] # f[n]
        /\ \A n \in DOMAIN a : b[n] = a[f[n]]

\* The strings of strs that are rearrangements of str, in input order and
\* as often as they occur.
AnagramsOf(strs, str) ==
    LET IsAnagramOfStr(x) == IsPermutation(str, x)
    IN SelectSeq(strs, IsAnagramOfStr)

\* groups partitions the occurrences of strs by "is a rearrangement of":
\* no group is empty, each group is all the occurrences of the
\* rearrangements of its first string, in input order, no two groups hold
\* rearrangements of one another, and every string has its group.
IsAnagramGrouping(strs, groups) ==
    /\ \A g \in DOMAIN groups :
        /\ groups[g] # <<>>
        /\ groups[g] = AnagramsOf(strs, groups[g][1])
    /\ \A g, h \in DOMAIN groups :
        g # h => ~IsPermutation(groups[g][1], groups[h][1])
    /\ \A n \in DOMAIN strs : \E g \in DOMAIN groups :
        IsPermutation(groups[g][1], strs[n])

\* C7: groupAnagrams and groupAnagramsCount each return groups that
\* partition the occurrences of the input, two strings sharing a group
\* exactly when one is a rearrangement of the other, each group in input
\* order, the empty string in a group of its own.
C7_GroupAnagrams ==
    gpc = "done" =>
        /\ IsAnagramGrouping(ga_strs, ga_ret)
        /\ IsAnagramGrouping(ga_strs, gac_ret)

\* Both functions have answered on two rearrangements of one string with
\* the empty string between them.
C7_Witness ==
    /\ gpc = "done"
    /\ ga_strs = <<<<"b", "a">>, <<>>, <<"a", "b">>>>
    /\ ga_ret = <<<<<<"b", "a">>, <<"a", "b">>>>, <<<<>>>>>>
    /\ gac_ret = ga_ret

---------------------------------------------------------------------------
(* 02-is-anagram.py *)

\* The letters of the strings given to isAnagram.
AnagramAlphabet == {"a", "b", "c"}

InitAnagram ==
    /\ ia_s \in SeqsUpTo(AnagramAlphabet, MaxLen)
    /\ ia_t \in SeqsUpTo(AnagramAlphabet, MaxLen)
    /\ ia_ret = FALSE
    /\ apc = "isAnagram"
    /\ IdleCodec /\ IdleTwoSum /\ IdleProduct /\ IdleTopK /\ IdleLongest
    /\ IdleGroup

anagramOthers == <<codecVars, twoSumVars, productVars, topKVars, longestVars,
                   groupVars>>

\* A mutant of CounterEquals: the same keys, whatever their counts.
CounterEqualsKeys(c, d) == DOMAIN c.count = DOMAIN d.count

\* Counter == Counter: the same keys with the same counts, in any order.
CounterEquals(c, d) == c.count = d.count

\* return Counter(s) == Counter(t)
isAnagram(str, other) == CounterEquals(Counter(str), Counter(other))

\* solution.isAnagram(s, t)
CallIsAnagram ==
    /\ apc = "isAnagram"
    /\ ia_ret' = isAnagram(ia_s, ia_t)
    /\ apc' = "done"
    /\ UNCHANGED <<ia_s, ia_t, anagramOthers>>

NextAnagram == CallIsAnagram

SpecAnagram == InitAnagram /\ [][NextAnagram]_vars

\* Every character occurs as often in a as in b.
SameMultiset(a, b) ==
    \A c \in Range(a) \cup Range(b) : Occurrences(a, c) = Occurrences(b, c)

\* C8: isAnagram(s, t) is true when every character occurs as often in s
\* as in t, and false otherwise, strings of different lengths included.
C8_IsAnagram == apc = "done" => (ia_ret <=> SameMultiset(ia_s, ia_t))

\* isAnagram has answered true on two different strings of the same
\* characters.
C8_Witness ==
    /\ apc = "done"
    /\ ia_s = <<"a", "b">>
    /\ ia_t = <<"b", "a">>
    /\ ia_ret = TRUE

===========================================================================
